---- MODULE Spec2Model ----
(***************************************************************************)
(* A model of git2cvs: the one-way replay of a git branch onto a CVS       *)
(* working copy (src/src/main.rs), with its replay state (state.rs), the   *)
(* CVS driver and argument chunker (cvs.rs), the metadata store            *)
(* (database.rs) and the linearisation of a branch (git.rs).               *)
(*                                                                         *)
(* Text is modelled as a sequence of Unicode scalar values; a path         *)
(* (PathBuf) as the sequence of its components.                            *)
(***************************************************************************)
EXTENDS Integers, Sequences, FiniteSets, TLC

(***************************************************************************)
(* Bounds of the model.                                                    *)
(***************************************************************************)
\* number of commits in the git repository
MaxCommits == 3
\* sysconf(_SC_ARG_MAX) of the platform, scaled down so that batches split
ArgMax == 23
\* length of a branch name given to the sanitiser
MaxNameLen == 2
\* number of pieces of a name made of allowed characters only
MaxPieces == 2
\* number of distinct blobs in the repository
MaxBlobId == 2
\* the commits replayed after a walk was aborted and the run went on
MaxAfterAbort == 0
\* length of the history that is replayed
MaxReplayed == 2

\* the safety margin taken off ARG_MAX (cvs.rs:85, cvs.rs:134)
ArgMargin == 12
\* width of the zero-padded hexadecimal escape (cvs.rs:214)
HexWidth == 6
\* hexadecimal digits of a git object id as printed by Display (database.rs:59)
OidHexLen == 40

\* Option<T>: None, or Some(v)
None == <<>>
Some(v) == <<v>>

(***************************************************************************)
(* Text helpers.                                                           *)
(***************************************************************************)
RECURSIVE Concat(_)
Concat(ss) == IF ss = <<>> THEN <<>> ELSE Head(ss) \o Concat(Tail(ss))

\* one lowercase hexadecimal digit, as a scalar value
HexChar(d) == IF d < 10 THEN 48 + d ELSE 97 + (d - 10)

RECURSIVE HexDigits(_)
HexDigits(n) ==
    IF n < 16 THEN <<HexChar(n)>>
    ELSE HexDigits(n \div 16) \o <<HexChar(n % 16)>>

RECURSIVE ZeroPad(_, _)
ZeroPad(s, w) == IF Len(s) >= w THEN s ELSE ZeroPad(<<48>> \o s, w)

\* a slip: the digits are not padded
FormatHex_unpadded(n, w) == HexDigits(n)

\* format!("{:06x}", n): at least HexWidth digits, zero-padded on the left
FormatHex(n, w) == ZeroPad(HexDigits(n), w)

\* char::is_ascii_alphanumeric
is_ascii_alphanumeric(c) ==
    \/ c \in 48..57
    \/ c \in 65..90
    \/ c \in 97..122

\* the test of cvs.rs:211
IsAllowedChar(c) == is_ascii_alphanumeric(c) \/ c = 45 \/ c = 95

\* "__u"
EscapePrefix == <<95, 95, 117>>

\* what one character contributes to the output (cvs.rs:211-215)
SanitiseChar(c) ==
    IF IsAllowedChar(c) THEN <<c>>
    ELSE EscapePrefix \o FormatHex(c, HexWidth)

RECURSIVE sanitise_branch(_)
sanitise_branch(name) ==
    IF name = <<>> THEN <<>>
    ELSE SanitiseChar(Head(name)) \o sanitise_branch(Tail(name))

(***************************************************************************)
(* Paths and file handles (state.rs).                                      *)
(***************************************************************************)
\* opt.target, the default of main.rs:54
Target == <<"src">>

\* state::File is identified by its relative path alone (state.rs:134-144)
cvs_relative_path(file) == Target \o file

RECURSIVE ByteLen(_)
\* OsString::len of a path: its components joined by '/'
ByteLen(path) ==
    IF path = <<>> THEN 0
    ELSE IF Len(path) = 1 THEN Len(path[1])
    ELSE Len(Head(path)) + 1 + ByteLen(Tail(path))

IsPrefix(p, q) == Len(p) <= Len(q) /\ SubSeq(q, 1, Len(p)) = p
IsProperPrefix(p, q) == Len(p) < Len(q) /\ IsPrefix(p, q)
Parent(p) == SubSeq(p, 1, Len(p) - 1)

(***************************************************************************)
(* The git repository, as far as the program reads it (git.rs).            *)
(***************************************************************************)
Commits == 1..MaxCommits

\* the parents of every commit, oldest commits numbered lowest
Graphs ==
    { g \in [Commits -> {<<>>} \cup { <<p>> : p \in Commits }
                               \cup { <<p, q>> : p, q \in Commits }] :
        \A c \in Commits :
            /\ \A k \in 1..Len(g[c]) : g[c][k] < c
            /\ Len(g[c]) = 2 => g[c][1] # g[c][2] }

\* The replay reads nothing of a commit id but the commit it names, so for
\* the replay the commits of the first-parent chain are numbered in a row;
\* a commit may still have a second parent.
MainlineGraphs ==
    { g \in Graphs :
        \A c \in Commits : c > 1 => g[c] # <<>> /\ g[c][1] = c - 1 }

\* a slip: the last parent is followed
parent_last(g, commit) == g[commit][Len(g[commit])]

\* commit.parent(0), for a commit that has a parent
parent_0(g, commit) == g[commit][1]

\* VecDeque::push_front
push_front(deque, oid) == <<oid>> \o deque

RECURSIVE HistoryLoop(_, _, _)
\* the loop of git.rs:53-68: push the commit at the front, go to parent(0)
HistoryLoop(g, commit, deque) ==
    IF g[commit] = <<>> THEN push_front(deque, commit)
    ELSE HistoryLoop(g, parent_0(g, commit), push_front(deque, commit))

linear_history(g, tip) == HistoryLoop(g, tip, <<>>)

\* commit.message_raw_bytes() and commit.time().seconds() of a commit
message_raw_bytes(oid) == <<"message", oid>>

\* format!("{}", oid): the object id in lowercase hexadecimal
OidHex(oid) == FormatHex(oid, OidHexLen)

\* The trees of the repository: a top-level entry "a", a top-level entry "d"
\* that may be a directory holding "x".
PA == <<"a">>
PD == <<"d">>
PX == <<"d", "x">>
AllPaths == {PA, PD, PX}
\* git sorts the entries of a tree by name; the walk is in pre-order
WalkOrder == <<PA, PD, PX>>

BlobIds == 1..MaxBlobId
\* git2::Blob::is_binary, a property of the content
is_binary(oid) == oid % 2 = 0
\* the mode of the entry holding the blob: 0o644, or 0o755 for a binary
FileModeOf(oid) == IF is_binary(oid) THEN 493 ELSE 420

NoEntry == [kind |-> "None", id |-> 0, filemode |-> 0]
BlobEntry(oid) == [kind |-> "Blob", id |-> oid, filemode |-> FileModeOf(oid)]
TreeEntry == [kind |-> "Tree", id |-> 0, filemode |-> 16384]
\* a submodule: ObjectType::Commit, neither blob nor tree
OtherEntry == [kind |-> "Commit", id |-> 0, filemode |-> 57344]

Blobs == { BlobEntry(o) : o \in BlobIds }

Trees ==
    { t \in [AllPaths -> {NoEntry, TreeEntry, OtherEntry} \cup Blobs] :
        /\ t[PA] \in {NoEntry} \cup Blobs
        /\ t[PX] \in {NoEntry, OtherEntry} \cup Blobs
        /\ t[PD].kind # "Tree" => t[PX] = NoEntry
        \* git does not record an empty directory
        /\ t[PD].kind = "Tree" => t[PX] # NoEntry }

EmptyTree == [p \in AllPaths |-> NoEntry]

BlobPaths(t) == { p \in AllPaths : t[p].kind = "Blob" }

\* what Tree::walk hands to the callback for the entry at path p
WalkItem(t, p) ==
    [root |-> Parent(p), name |-> p[Len(p)], kind |-> t[p].kind,
     id |-> t[p].id, filemode |-> t[p].filemode]

RECURSIVE PreOrderFrom(_, _)
PreOrderFrom(t, order) ==
    IF order = <<>> THEN <<>>
    ELSE IF t[Head(order)] = NoEntry THEN PreOrderFrom(t, Tail(order))
    ELSE <<WalkItem(t, Head(order))>> \o PreOrderFrom(t, Tail(order))

\* the entries of a tree in the order TreeWalkMode::PreOrder visits them
PreOrder(t) == PreOrderFrom(t, WalkOrder)

\* main.rs:162-166: the path of an entry under the target directory
git_path(item) == Append(item.root, item.name)

\* TreeWalkResult::Skip: the entries below the skipped one are not visited
SkipBelow(todo, p) ==
    LET Keep(item) == ~IsProperPrefix(p, git_path(item))
    IN  SelectSeq(todo, Keep)

(***************************************************************************)
(* The argument chunker and the batched CVS commands (cvs.rs).             *)
(***************************************************************************)
\* an invocation of the cvs binary, as logged by ExecExt::log
CvsEv(cmd, kb, args, ok) ==
    [op |-> "cvs", cmd |-> cmd, kb |-> kb, args |-> args, ok |-> ok]
\* a change made to the working copy
FsEv(what, path) ==
    [op |-> "fs", cmd |-> what, kb |-> FALSE, args |-> <<path>>, ok |-> TRUE]
\* log::error! of main.rs:111-116, with the number of the commit being
\* replayed
LogEv(path, nth) ==
    [op |-> "log", cmd |-> "error", kb |-> FALSE, args |-> <<path, nth>>,
     ok |-> FALSE]

\* ArgChunker::new; calls records what the commit closure was handed
ArgChunker_new(limit) ==
    [acc |-> <<>>, limit |-> limit, size |-> 0,
     calls |-> <<>>, err |-> FALSE, panic |-> FALSE]

\* a slip: the accumulated paths are not cleared after the closure ran
do_commit_keep(ch, bad) ==
    LET ok == (Len(ch.calls) + 1) \notin bad
        called == [ch EXCEPT !.calls = Append(@, [args |-> ch.acc, ok |-> ok])]
    IN  IF ok THEN [called EXCEPT !.size = 0]
        ELSE [called EXCEPT !.err = TRUE]

\* ArgChunker::do_commit; the k-th call of the closure fails when k \in bad
do_commit(ch, bad) ==
    LET ok == (Len(ch.calls) + 1) \notin bad
        called == [ch EXCEPT !.calls = Append(@, [args |-> ch.acc, ok |-> ok])]
    IN  IF ok THEN [called EXCEPT !.size = 0, !.acc = <<>>]
        ELSE [called EXCEPT !.err = TRUE]

\* ArgChunker::push
push(ch, path, bad) ==
    LET flushed == IF ch.size + ByteLen(path) > ch.limit
                   THEN do_commit(ch, bad) ELSE ch
    IN  IF flushed.err THEN flushed
        ELSE [flushed EXCEPT !.size = @ + ByteLen(path),
                             !.acc = Append(@, path)]

\* Drop for ArgChunker: do_commit().unwrap()
drop(ch, bad) ==
    IF Len(ch.acc) > 0
    THEN LET c == do_commit([ch EXCEPT !.err = FALSE], bad)
         IN  [c EXCEPT !.err = ch.err, !.panic = c.err]
    ELSE ch

RECURSIVE PushAll(_, _, _)
\* for path in paths { chunker.push(path)?; }
PushAll(ch, paths, bad) ==
    IF paths = <<>> \/ ch.err THEN ch
    ELSE PushAll(push(ch, Head(paths), bad), Tail(paths), bad)

\* the body shared by add_multiple and remove_multiple: the chunker is
\* dropped when the function returns, on the error path too
RunChunker(paths, bad) ==
    drop(PushAll(ArgChunker_new(ArgMax - ArgMargin), paths, bad), bad)

ChunkerResult(ch) ==
    IF ch.panic THEN "panic" ELSE IF ch.err THEN "err" ELSE "ok"

RECURSIVE CallEvents(_, _, _)
CallEvents(calls, cmd, kb) ==
    IF calls = <<>> THEN <<>>
    ELSE <<CvsEv(cmd, kb, Head(calls).args, Head(calls).ok)>>
         \o CallEvents(Tail(calls), cmd, kb)

\* Repository::add_multiple
add_multiple(paths, binary, bad) ==
    LET ch == RunChunker(paths, bad)
    IN  [events |-> CallEvents(ch.calls, "add", binary),
         result |-> ChunkerResult(ch)]

\* Repository::remove_multiple
remove_multiple(paths, bad) ==
    LET ch == RunChunker(paths, bad)
    IN  [events |-> CallEvents(ch.calls, "remove", FALSE),
         result |-> ChunkerResult(ch)]

\* the calls of the closure that may fail, for a given number of paths
FailureSets(paths) == SUBSET (1..(Len(paths) + 1))

(***************************************************************************)
(* The metadata store (database.rs).                                       *)
(***************************************************************************)
EmptyDb == [branch_mappings |-> {}, commit_branches |-> {}]

\* a slip: the lookup finds nothing
get_cvs_branch_blind(database, git) == None

\* SELECT cvs FROM branch_mappings WHERE git = ?  (.optional())
get_cvs_branch(database, git) ==
    LET rows == { r \in database.branch_mappings : r.git = git }
    IN  IF rows = {} THEN None ELSE Some((CHOOSE r \in rows : TRUE).cvs)

\* INSERT OR REPLACE INTO branch_mappings: git is the primary key
UpsertMapping(database, git, cvs) ==
    [database EXCEPT !.branch_mappings =
        { r \in @ : r.git # git } \cup {[git |-> git, cvs |-> cvs]}]

\* a slip: the rows of the branch are left where they are
DeleteBranchRows_none(database, git) == database

\* DELETE FROM commit_branches WHERE branch = ?
DeleteBranchRows(database, git) ==
    [database EXCEPT !.commit_branches = { r \in @ : r.branch # git }]

\* the first n INSERTs of the loop of database.rs:58-60
InsertRows(database, git, commits, n) ==
    [database EXCEPT !.commit_branches =
        @ \cup { [oid |-> OidHex(commits[k]), branch |-> git,
                  branch_index |-> k - 1] : k \in 1..n }]

\* the steps of write_branch that may fail: opening the transaction, a
\* statement, the k-th INSERT, the commit of the transaction
WriteFailures(commits) ==
    { <<step, 0>> : step \in {"none", "begin", "upsert", "delete", "commit"} }
        \cup { <<"insert", k>> : k \in 1..Len(commits) }

\* a slip: what the transaction did stays when it is dropped
Rollback_keep(database, view) == view

\* a Transaction dropped without commit is rolled back (the default
\* DropBehavior of rusqlite): the store is as it was
Rollback(database, view) == database

\* a slip: the transaction is never committed
write_branch_uncommitted(database, git, cvs, commits, fail) ==
    [ok |-> fail[1] = "none", db |-> database]

\* Database::write_branch: everything happens in one transaction, which
\* is rolled back when it is dropped without commit
write_branch(database, git, cvs, commits, fail) ==
    LET txn == InsertRows(DeleteBranchRows(UpsertMapping(database, git, cvs),
                                           git),
                          git, commits, Len(commits))
    IN  IF fail[1] = "none" THEN [ok |-> TRUE, db |-> txn]
        ELSE [ok |-> FALSE, db |-> database]

(***************************************************************************)
(* The replay state (state.rs).  known_files is a function from the files  *)
(* known to the blob last written there.                                   *)
(***************************************************************************)
\* Global::new
Global_new == [p \in {} |-> 0]

\* a slip: no file is ever found
get_oid_forgets(known, file) == None

\* Global::get_oid
get_oid(known, file) ==
    IF file \in DOMAIN known THEN Some(known[file]) ELSE None

\* a slip: nothing is saved
save_oid_skip(known, file, oid) == known

\* Global::save_oid
save_oid(known, file, oid) ==
    [p \in DOMAIN known \cup {file} |-> IF p = file THEN oid ELSE known[p]]

\* a slip: the test of the retain closure is inverted
remove_files_seen_in_commit(known, commit) ==
    LET gone == { file \in DOMAIN known : file \in commit.seen }
    IN  [known |-> [p \in DOMAIN known \ gone |-> known[p]],
         removed |-> gone]

\* Global::remove_files_unseen_in_commit: the retained map and the set
\* that is returned
remove_files_unseen_in_commit(known, commit) ==
    LET gone == { file \in DOMAIN known : file \notin commit.seen }
    IN  [known |-> [p \in DOMAIN known \ gone |-> known[p]],
         removed |-> gone]

\* Commit::new
Commit_new == [binary |-> <<>>, non_binary |-> <<>>, seen |-> {}]

\* a slip: the file is put at the front of its list
new_file_front(commit, file, binary) ==
    IF binary THEN [commit EXCEPT !.binary = <<file>> \o @]
    ELSE [commit EXCEPT !.non_binary = <<file>> \o @]

\* Commit::new_file
new_file(commit, file, binary) ==
    IF binary THEN [commit EXCEPT !.binary = Append(@, file)]
    ELSE [commit EXCEPT !.non_binary = Append(@, file)]

\* Commit::seen_file
seen_file(commit, file) == [commit EXCEPT !.seen = @ \cup {file}]

\* the paths handed to add_multiple (main.rs:132-143)
RECURSIVE CvsPaths(_)
CvsPaths(files) ==
    IF files = <<>> THEN <<>>
    ELSE <<cvs_relative_path(Head(files))>> \o CvsPaths(Tail(files))

\* every order in which a HashSet may be iterated
Orders(set) ==
    { s \in [1..Cardinality(set) -> set] :
        \A i, j \in 1..Cardinality(set) : i # j => s[i] # s[j] }

(***************************************************************************)
(* The working copy under the target directory: what lies at each path.    *)
(***************************************************************************)
Root == << >>
DiskPaths == AllPaths \cup {Root}
Nothing == [kind |-> "none", oid |-> 0]
Dir == [kind |-> "dir", oid |-> 0]
FileOf(oid) == [kind |-> "file", oid |-> oid]
EmptyDisk == [p \in DiskPaths |-> Nothing]

Ancestors(p) == { SubSeq(p, 1, n) : n \in 0..(Len(p) - 1) }

\* fs::metadata(path).is_ok()
Exists(d, p) ==
    /\ d[p].kind # "none"
    /\ \A q \in Ancestors(p) : d[q].kind = "dir"

\* whether fs::write(path) can succeed
CanWrite(d, p) ==
    /\ d[p].kind # "dir"
    /\ \A q \in Ancestors(p) : d[q].kind = "dir"

\* whether fs::create_dir_all(path) can succeed
CanCreateDirAll(d, p) ==
    \A q \in Ancestors(p) \cup {p} : d[q].kind # "file"

create_dir_all(d, p) ==
    [q \in DiskPaths |-> IF q \in Ancestors(p) \cup {p} THEN Dir ELSE d[q]]

\* entry.filemode() & 0o111 != 0
Executable(mode) ==
    \/ mode % 2 = 1
    \/ (mode \div 8) % 2 = 1
    \/ (mode \div 64) % 2 = 1

(***************************************************************************)
(* walk_tree_entry (main.rs:154-228).  fail names the fallible call that   *)
(* fails, if any.                                                          *)
(***************************************************************************)
WalkFailures == {"none", "blob", "write", "times", "metadata", "chmod", "mkdir"}

Walked(result, known, commit, d, evs) ==
    [result |-> result, known |-> known, commit |-> commit, disk |-> d,
     events |-> evs]

\* the arm of main.rs:181-206: the file is written and recorded
WriteBlob(item, known, commit, d, fail) ==
    LET file == git_path(item)
        oid == item.id
        maybe_oid == get_oid(known, file)
        written == [d EXCEPT ![file] = FileOf(oid)]
        evWrite == <<FsEv("write", file)>>
        evTimes == evWrite \o <<FsEv("utimes", file)>>
        evMode == IF Executable(item.filemode)
                  THEN evTimes \o <<FsEv("chmod", file)>> ELSE evTimes
        noted == IF maybe_oid = None
                 THEN new_file(commit, file, is_binary(oid)) ELSE commit
    IN  IF ~CanWrite(d, file) \/ fail = "write"
        THEN Walked("Err", known, commit, d, <<>>)
        ELSE IF fail = "times"
        THEN Walked("Err", known, commit, written, evWrite)
        ELSE IF Executable(item.filemode) /\ fail \in {"metadata", "chmod"}
        THEN Walked("Err", known, commit, written, evTimes)
        ELSE Walked("Ok", save_oid(known, file, oid),
                    seen_file(noted, file), written, evMode)

\* a slip: the blob is written whether or not it is the one last written
WalkBlob_always(item, known, commit, d, fail) ==
    IF fail = "blob" THEN Walked("Err", known, commit, d, <<>>)
    ELSE WriteBlob(item, known, commit, d, fail)

\* Some(ObjectType::Blob)
WalkBlob(item, known, commit, d, fail) ==
    LET file == git_path(item)
    IN  IF fail = "blob" THEN Walked("Err", known, commit, d, <<>>)
        ELSE IF get_oid(known, file) = Some(item.id)
        THEN Walked("Ok", known, seen_file(commit, file), d, <<>>)
        ELSE WriteBlob(item, known, commit, d, fail)

\* Some(ObjectType::Tree)
WalkTree(item, known, commit, d, fail) ==
    LET file == git_path(item)
    IN  IF Exists(d, file) THEN Walked("Ok", known, commit, d, <<>>)
        ELSE IF ~CanCreateDirAll(d, file) \/ fail = "mkdir"
        THEN Walked("Err", known, commit, d, <<>>)
        ELSE Walked("Ok", known, new_file(commit, file, FALSE),
                    create_dir_all(d, file), <<FsEv("mkdir", file)>>)

walk_tree_entry(item, known, commit, d, fail) ==
    IF item.kind = "Blob" THEN WalkBlob(item, known, commit, d, fail)
    ELSE IF item.kind = "Tree" THEN WalkTree(item, known, commit, d, fail)
    ELSE Walked("Skip", known, commit, d, <<>>)

(***************************************************************************)
(* The program (main.rs:60-152) as a state machine.                        *)
(***************************************************************************)
VARIABLES
    pc,            \* where main is
    opt_branch,    \* opt.branch
    db,            \* the metadata store, which outlives the process
    cvs_branch,    \* main.rs:76
    commits,       \* main.rs:78
    idx,           \* the number of commits replayed
    began,         \* the number of commits whose replay began
    known_files,   \* state::Global
    commit_state,  \* state::Commit
    disk,          \* the working copy under the target directory
    tree,          \* the tree of the commit being replayed
    walk_todo,     \* the entries that Tree::walk has yet to visit
    removed,       \* what remove_files_unseen_in_commit returned
    events,        \* file-system changes and cvs invocations of this step
    committed,     \* the messages handed to cvs commit in this run
    cvs_invoked,   \* whether this run has invoked cvs
    db0,           \* the metadata store when this run began
    refused,       \* whether this run met an existing mapping
    interrupted,   \* whether an earlier run wrote the mapping and then failed
    prev_tree,     \* the tree of the commit replayed before this one
    keys_before,   \* the files known when this commit began
    other_branch,  \* a second name, for the sanitiser
    other_cvs,     \* and what it is sanitised to
    chunker,       \* an ArgChunker on its own
    to_push,       \* the paths its caller has yet to push
    pushed,        \* the paths whose push returned Ok
    txn,           \* the open transaction of write_branch, as it sees the store
    wb_args,       \* the arguments of the write_branch call under way
    graph,         \* a commit graph, for linear_history on its own
    lh_commit,     \* the commit the loop of linear_history is at
    branch_tip     \* the commit the branch points to

vars == <<pc, opt_branch, db, cvs_branch, commits, idx, began, known_files,
          commit_state, disk, tree, walk_todo, removed, events, committed,
          cvs_invoked, db0, refused, interrupted, prev_tree, keys_before,
          other_branch, other_cvs, chunker, to_push, pushed, txn, wb_args,
          graph, lh_commit, branch_tip>>

\* "main" and "r/1"
BranchNames == { <<109, 97, 105, 110>>, <<114, 47, 49>> }
\* the replay reads the name of the branch only to look it up and to
\* sanitise it: it is run for "r/1"
ReplayedBranches == { <<114, 47, 49>> }

Terminal == {"done", "failed", "panicked", "killed"}

HasMapping(database, git) == get_cvs_branch(database, git) # None

\* the state of a process that has just started
FreshData ==
    /\ cvs_branch = <<>>
    /\ commits = <<>>
    /\ idx = 0
    /\ began = 0
    /\ known_files = Global_new
    /\ commit_state = Commit_new
    /\ disk = EmptyDisk
    /\ tree = EmptyTree
    /\ prev_tree = EmptyTree
    /\ keys_before = {}
    /\ walk_todo = <<>>
    /\ removed = {}
    /\ events = <<>>
    /\ committed = <<>>
    /\ cvs_invoked = FALSE
    /\ refused = FALSE

Fresh == pc = "open" /\ FreshData

\* the variables of the parts that are looked at on their own, at rest
Apart ==
    /\ chunker = ArgChunker_new(ArgMax - ArgMargin)
    /\ to_push = <<>>
    /\ pushed = <<>>
    /\ txn = None
    /\ wb_args = None
    /\ graph = <<>>
    /\ lh_commit = 0
    /\ branch_tip = 0

ApartVars ==
    <<chunker, to_push, pushed, txn, wb_args, graph, lh_commit, branch_tip>>

Init ==
    /\ Fresh
    /\ opt_branch \in ReplayedBranches
    /\ db = EmptyDb
    /\ db0 = db
    /\ interrupted = FALSE
    /\ other_branch = <<>>
    /\ other_cvs = <<>>
    /\ Apart

\* what no step of the replay changes
Fixed ==
    UNCHANGED <<opt_branch, db0, interrupted, other_branch, other_cvs,
                ApartVars>>

Fail(kind) == pc' = kind

\* main.rs:61-66: the database and the repository are opened
Open ==
    /\ pc = "open"
    /\ \E ok \in BOOLEAN : pc' = IF ok THEN "find_branch" ELSE "failed"
    /\ Fixed
    /\ UNCHANGED <<db, cvs_branch, commits, idx, began, known_files, commit_state,
                   disk, tree, walk_todo, removed, events, committed,
                   cvs_invoked, refused, prev_tree, keys_before>>

\* main.rs:68-71
FindBranch ==
    /\ pc = "find_branch"
    /\ \E found \in {"Some", "None", "Err"} :
          pc' = IF found = "Some" THEN "get_cvs_branch" ELSE "failed"
    /\ Fixed
    /\ UNCHANGED <<db, cvs_branch, commits, idx, began, known_files, commit_state,
                   disk, tree, walk_todo, removed, events, committed,
                   cvs_invoked, refused, prev_tree, keys_before>>

\* main.rs:73-76: an existing mapping ends the run
GetCvsBranch ==
    /\ pc = "get_cvs_branch"
    /\ \E ok \in BOOLEAN :
          IF ~ok
          THEN Fail("failed") /\ UNCHANGED <<refused, cvs_branch>>
          ELSE IF get_cvs_branch(db, opt_branch) # None
          THEN Fail("failed") /\ refused' = TRUE /\ UNCHANGED cvs_branch
          ELSE /\ pc' = "linear_history"
               /\ cvs_branch' = sanitise_branch(opt_branch)
               /\ UNCHANGED refused
    /\ Fixed
    /\ UNCHANGED <<db, commits, idx, began, known_files, commit_state,
                   disk, tree, walk_todo, removed, events, committed,
                   cvs_invoked, prev_tree, keys_before>>

\* main.rs:78
LinearHistory ==
    /\ pc = "linear_history"
    /\ \E ok \in BOOLEAN, g \in MainlineGraphs, tip \in 1..MaxReplayed :
          IF ok
          THEN pc' = "write_branch" /\ commits' = linear_history(g, tip)
          ELSE Fail("failed") /\ UNCHANGED commits
    /\ Fixed
    /\ UNCHANGED <<db, cvs_branch, idx, began, known_files, commit_state,
                   disk, tree, walk_todo, removed, events, committed,
                   cvs_invoked, refused, prev_tree, keys_before>>

\* main.rs:79
WriteBranch ==
    /\ pc = "write_branch"
    /\ \E fail \in WriteFailures(commits) :
          LET w == write_branch(db, opt_branch, cvs_branch, commits, fail)
          IN  /\ db' = w.db
              /\ pc' = IF w.ok THEN "checkout" ELSE "failed"
    /\ Fixed
    /\ UNCHANGED <<cvs_branch, commits, idx, began, known_files, commit_state,
                   disk, tree, walk_todo, removed, events, committed,
                   cvs_invoked, refused, prev_tree, keys_before>>

\* main.rs:81-82: the temporary directory, then cvs checkout into it
Checkout ==
    /\ pc = "checkout"
    /\ \E out \in {"ok", "no_tempdir", "cvs_failed"} :
          /\ pc' = IF out = "ok" THEN "create_target" ELSE "failed"
          /\ events' = IF out = "no_tempdir" THEN events
                       ELSE Append(events,
                                   CvsEv("checkout", FALSE, <<>>, out = "ok"))
          /\ cvs_invoked' = (out # "no_tempdir")
    /\ Fixed
    /\ UNCHANGED <<db, cvs_branch, commits, idx, began, known_files, commit_state,
                   disk, tree, walk_todo, removed, committed,
                   refused, prev_tree, keys_before>>

\* main.rs:86-90
CreateTarget ==
    /\ pc = "create_target"
    /\ \E ok \in BOOLEAN :
          IF ok
          THEN /\ pc' = "add_target"
               /\ disk' = create_dir_all(disk, Root)
               /\ events' = Append(events, FsEv("mkdir", Root))
               /\ known_files' = Global_new
          ELSE Fail("failed") /\ UNCHANGED <<disk, events, known_files>>
    /\ Fixed
    /\ UNCHANGED <<db, cvs_branch, commits, idx, began, commit_state,
                   tree, walk_todo, removed, committed,
                   cvs_invoked, refused, prev_tree, keys_before>>

\* main.rs:94
AddTarget ==
    /\ pc = "add_target"
    /\ \E ok \in BOOLEAN :
          /\ pc' = IF ok THEN "loop" ELSE "failed"
          /\ events' = Append(events, CvsEv("add", FALSE, <<Target>>, ok))
    /\ Fixed
    /\ UNCHANGED <<db, cvs_branch, commits, idx, began, known_files, commit_state,
                   disk, tree, walk_todo, removed, committed,
                   cvs_invoked, refused, prev_tree, keys_before>>

\* the error log of the run is kept from one commit to the next
ErrorLog(evs) ==
    LET IsLog(e) == e.op = "log"
    IN  SelectSeq(evs, IsLog)

\* the commits whose replay began after the first aborted walk of the run
AfterAbort ==
    IF ErrorLog(events) = <<>> THEN 0
    ELSE began - Head(ErrorLog(events)).args[2]

\* main.rs:96-100: the next commit is looked up and the walk of its tree
\* begins
NextCommit ==
    /\ pc = "loop"
    /\ idx < Len(commits)
    /\ ErrorLog(events) = <<>> \/ AfterAbort < MaxAfterAbort
    /\ \E ok \in BOOLEAN, t \in Trees :
          IF ok
          THEN /\ pc' = "walk"
               /\ began' = began + 1
               /\ commit_state' = Commit_new
               /\ tree' = t
               /\ prev_tree' = tree
               /\ keys_before' = DOMAIN known_files
               /\ walk_todo' = PreOrder(t)
               /\ removed' = {}
               /\ events' = ErrorLog(events)
          ELSE /\ Fail("failed")
               /\ UNCHANGED <<began, commit_state, tree, prev_tree,
                              keys_before, walk_todo, removed, events>>
    /\ Fixed
    /\ UNCHANGED <<db, cvs_branch, commits, idx, known_files, disk,
                   committed, cvs_invoked, refused>>

\* What Tree::walk returns once the callback has answered Abort.  The walk
\* stops there; whether it then returns an error is decided by the git2
\* crate, outside this repository: the binding may hand on the error of
\* git_tree_walk or drop it and return Ok(()).
AbortedWalkReturns == {"Err", "Ok"}

\* main.rs:100-121: the callback of the walk, for one entry; an error of
\* walk_tree_entry is logged and answered with TreeWalkResult::Abort
WalkEntry ==
    /\ pc = "walk"
    /\ walk_todo # <<>>
    /\ \E fail \in WalkFailures, returned \in AbortedWalkReturns :
          LET item == Head(walk_todo)
              w == walk_tree_entry(item, known_files, commit_state, disk, fail)
          IN  /\ known_files' = w.known
              /\ commit_state' = w.commit
              /\ disk' = w.disk
              /\ events' = IF w.result = "Err"
                           THEN events \o w.events
                                   \o <<LogEv(git_path(item), began)>>
                           ELSE events \o w.events
              /\ pc' = IF w.result = "Err" /\ returned = "Err"
                       THEN "failed" ELSE "walk"
              /\ walk_todo' = IF w.result = "Err" THEN <<>>
                              ELSE IF w.result = "Skip"
                              THEN SkipBelow(Tail(walk_todo), git_path(item))
                              ELSE Tail(walk_todo)
    /\ Fixed
    /\ UNCHANGED <<db, cvs_branch, commits, idx, began, tree, removed, committed,
                   cvs_invoked, refused, prev_tree, keys_before>>

\* a slip: the binary files are added before the text files
StepAfter_binary_first(step) ==
    CASE step = "remove" -> "add_binary"
      [] step = "add_binary" -> "add_text"
      [] step = "add_text" -> "commit"

\* the order of the steps of one iteration (main.rs:123-146)
StepAfter(step) ==
    CASE step = "remove" -> "add_text"
      [] step = "add_text" -> "add_binary"
      [] step = "add_binary" -> "commit"

\* where main goes after a batched command: on, or out with the error or
\* the panic of the chunker
AfterChunker(result, step) ==
    IF result = "ok" THEN StepAfter(step)
    ELSE IF result = "panic" THEN "panicked" ELSE "failed"

\* a slip: the history is replayed newest first
NthCommit_reversed(history, i) == history[Len(history) - i]

\* commits.iter().enumerate(): the commit of the iteration after i commits
NthCommit(history, i) == history[i + 1]

\* main.rs:123-129
RemoveUnseen ==
    /\ pc = "walk"
    /\ walk_todo = <<>>
    /\ LET r == remove_files_unseen_in_commit(known_files, commit_state)
       IN  /\ known_files' = r.known
           /\ removed' = r.removed
           /\ \E order \in Orders(r.removed) :
              \E bad \in FailureSets(order) :
                 LET m == remove_multiple(CvsPaths(order), bad)
                 IN  /\ events' = events \o m.events
                     /\ pc' = AfterChunker(m.result, "remove")
    /\ Fixed
    /\ UNCHANGED <<db, cvs_branch, commits, idx, began, commit_state, disk, tree,
                   walk_todo, committed, cvs_invoked, refused, prev_tree,
                   keys_before>>

\* main.rs:132-137
AddText ==
    /\ pc = "add_text"
    /\ \E bad \in FailureSets(commit_state.non_binary) :
          LET m == add_multiple(CvsPaths(commit_state.non_binary), FALSE, bad)
          IN  /\ events' = events \o m.events
              /\ pc' = AfterChunker(m.result, "add_text")
    /\ Fixed
    /\ UNCHANGED <<db, cvs_branch, commits, idx, began, known_files, commit_state,
                   disk, tree, walk_todo, removed, committed, cvs_invoked,
                   refused, prev_tree, keys_before>>

\* main.rs:138-143
AddBinary ==
    /\ pc = "add_binary"
    /\ \E bad \in FailureSets(commit_state.binary) :
          LET m == add_multiple(CvsPaths(commit_state.binary), TRUE, bad)
          IN  /\ events' = events \o m.events
              /\ pc' = AfterChunker(m.result, "add_binary")
    /\ Fixed
    /\ UNCHANGED <<db, cvs_branch, commits, idx, began, known_files, commit_state,
                   disk, tree, walk_todo, removed, committed, cvs_invoked,
                   refused, prev_tree, keys_before>>

\* main.rs:146-148: the message goes to a temporary file (cvs.rs:109-111),
\* then cvs commit -F is invoked
CvsCommit ==
    /\ pc = "commit"
    /\ \E out \in {"ok", "no_msgfile", "cvs_failed"} :
          LET message == message_raw_bytes(NthCommit(commits, idx))
          IN  /\ events' = IF out = "no_msgfile" THEN events
                           ELSE Append(events, CvsEv("commit", FALSE,
                                                     <<message>>, out = "ok"))
              /\ committed' = IF out = "no_msgfile" THEN committed
                              ELSE Append(committed, message)
              /\ idx' = IF out = "ok" THEN idx + 1 ELSE idx
              /\ pc' = IF out = "ok" THEN "loop" ELSE "failed"
    /\ Fixed
    /\ UNCHANGED <<db, cvs_branch, commits, began, known_files, commit_state,
                   disk, tree, walk_todo, removed, cvs_invoked, refused,
                   prev_tree, keys_before>>

\* main.rs:151
Finish ==
    /\ pc = "loop"
    /\ idx = Len(commits)
    /\ pc' = "done"
    /\ Fixed
    /\ UNCHANGED <<db, cvs_branch, commits, idx, began, known_files, commit_state,
                   disk, tree, walk_todo, removed, events, committed,
                   cvs_invoked, refused, prev_tree, keys_before>>

\* the process is killed between two steps
Interrupt ==
    /\ pc \notin Terminal
    /\ pc' = "killed"
    /\ Fixed
    /\ UNCHANGED <<db, cvs_branch, commits, idx, began, known_files, commit_state,
                   disk, tree, walk_todo, removed, events, committed,
                   cvs_invoked, refused, prev_tree, keys_before>>

\* the program is run again, for the same branch, on the same store; the
\* temporary directory and the replay state of the earlier run are gone
Rerun ==
    /\ pc \in Terminal
    /\ pc' = "open"
    /\ cvs_branch' = <<>>
    /\ commits' = <<>>
    /\ idx' = 0
    /\ began' = 0
    /\ known_files' = Global_new
    /\ commit_state' = Commit_new
    /\ disk' = EmptyDisk
    /\ tree' = EmptyTree
    /\ prev_tree' = EmptyTree
    /\ keys_before' = {}
    /\ walk_todo' = <<>>
    /\ removed' = {}
    /\ events' = <<>>
    /\ committed' = <<>>
    /\ cvs_invoked' = FALSE
    /\ refused' = FALSE
    /\ db0' = db
    /\ interrupted' = \/ interrupted
                      \/ /\ pc # "done"
                         /\ HasMapping(db, opt_branch)
                         /\ ~HasMapping(db0, opt_branch)
    /\ UNCHANGED <<db, opt_branch, other_branch, other_cvs, ApartVars>>

Next ==
    \/ Open
    \/ FindBranch
    \/ GetCvsBranch
    \/ LinearHistory
    \/ WriteBranch
    \/ Checkout
    \/ CreateTarget
    \/ AddTarget
    \/ NextCommit
    \/ WalkEntry
    \/ RemoveUnseen
    \/ AddText
    \/ AddBinary
    \/ CvsCommit
    \/ Finish
    \/ Interrupt
    \/ Rerun

Spec == Init /\ [][Next]_vars

(***************************************************************************)
(* What the claims speak of, read off the events of the current commit.    *)
(***************************************************************************)
EventIdx == 1..Len(events)
IsFsChange(e) == e.op = "fs"
IsCvs(e, cmd) == e.op = "cvs" /\ e.cmd = cmd
CommitCalls == { i \in EventIdx : IsCvs(events[i], "commit") }

\* the paths handed to cvs with the given command and -kb flag, in order
RECURSIVE ArgsOf(_, _, _)
ArgsOf(evs, cmd, kb) ==
    IF evs = <<>> THEN <<>>
    ELSE (IF IsCvs(Head(evs), cmd) /\ Head(evs).kb = kb
          THEN Head(evs).args ELSE <<>>) \o ArgsOf(Tail(evs), cmd, kb)

Range(seq) == { seq[i] : i \in 1..Len(seq) }

\* the walk of this commit or of an earlier one of this run was aborted by
\* a failure in the callback
Aborted == \E i \in EventIdx : events[i].op = "log"

\* the iteration for the current commit ran to its end
IterationDone == began > 0 /\ idx = began /\ pc \in {"loop", "done"}

\* the place of a path in the pre-order walk
WalkPos(file) == CHOOSE k \in 1..Len(WalkOrder) : WalkOrder[k] = file
InWalkOrder(files) ==
    \A i, j \in 1..Len(files) : i < j => WalkPos(files[i]) < WalkPos(files[j])

\* C1: within a commit, every file-system write comes before every cvs
\* remove, every remove before every add, every text add before every
\* binary (-kb) add, and the one commit after all of them.
PhaseOf(e) ==
    IF IsFsChange(e) \/ e.op = "log" THEN 1
    ELSE IF IsCvs(e, "remove") THEN 2
    ELSE IF IsCvs(e, "add") /\ ~e.kb THEN 3
    ELSE IF IsCvs(e, "add") THEN 4
    ELSE 5

C1_PhaseOrder ==
    began > 0 =>
        /\ \A i, j \in EventIdx :
              i < j => PhaseOf(events[i]) <= PhaseOf(events[j])
        /\ \A i \in EventIdx :
              PhaseOf(events[i]) = 5 => IsCvs(events[i], "commit")
        /\ Cardinality(CommitCalls) <= 1

C1_Witness ==
    /\ IterationDone
    /\ \E i, j, k, l, m \in EventIdx :
          /\ PhaseOf(events[i]) = 1
          /\ PhaseOf(events[j]) = 2
          /\ PhaseOf(events[k]) = 3
          /\ PhaseOf(events[l]) = 4
          /\ PhaseOf(events[m]) = 5

C3_UnlinkedBeforeRemove ==
    began > 0 =>
        \A i \in EventIdx : \A file \in AllPaths :
            (IsCvs(events[i], "remove")
                /\ cvs_relative_path(file) \in Range(events[i].args)) =>
                  /\ disk[file].kind # "file"
                  /\ \E j \in 1..(i - 1) : events[j] = FsEv("unlink", file)

\* C4, as stated: the paths passed to cvs remove are exactly the blob
\* paths known before the commit that are not blob entries of its tree,
\* those files leave the global state, and no path still present in the
\* tree is removed.
ExpectedRemovals == keys_before \ BlobPaths(tree)
RemoveArgs == Range(ArgsOf(events, "remove", FALSE))
RemovedExactly ==
    /\ RemoveArgs \subseteq { cvs_relative_path(f) : f \in ExpectedRemovals }
    /\ pc \in {"add_text", "add_binary", "commit", "loop", "done"} =>
          /\ RemoveArgs = { cvs_relative_path(f) : f \in ExpectedRemovals }
          /\ removed = ExpectedRemovals
          /\ DOMAIN known_files \cap removed = {}

AllAdds == ArgsOf(events, "add", FALSE) \o ArgsOf(events, "add", TRUE)
NewDirs == { e.args[1] : e \in { x \in Range(events) : x = FsEv("mkdir", x.args[1]) } }

C5_ParentsFirst ==
    began > 0 =>
        /\ \A i, j \in 1..Len(AllAdds) :
              IsProperPrefix(AllAdds[i], AllAdds[j]) => i < j
        /\ \A dir \in NewDirs : \A j \in 1..Len(AllAdds) :
              IsProperPrefix(cvs_relative_path(dir), AllAdds[j]) =>
                 \E i \in 1..(j - 1) : AllAdds[i] = cvs_relative_path(dir)
        /\ InWalkOrder(commit_state.non_binary)
        /\ InWalkOrder(commit_state.binary)
        /\ pc \in {"add_binary", "commit", "loop", "done"} =>
              ArgsOf(events, "add", FALSE) = CvsPaths(commit_state.non_binary)
        /\ pc \in {"commit", "loop", "done"} =>
              ArgsOf(events, "add", TRUE) = CvsPaths(commit_state.binary)

C5_Witness ==
    /\ pc = "add_binary"
    /\ NewDirs # {}
    /\ Cardinality({ i \in EventIdx : IsCvs(events[i], "add") }) >= 2
    /\ \E j \in 1..Len(AllAdds) : \E dir \in NewDirs :
          IsProperPrefix(cvs_relative_path(dir), AllAdds[j])

\* C6: when the store already maps the requested branch, the run fails
\* before it writes anything: the store is left as it was and cvs is never
\* invoked.
MappedIn(database, git) == \E r \in database.branch_mappings : r.git = git
BeforeTheCheck == {"open", "find_branch", "get_cvs_branch"}

C6_Refusal ==
    MappedIn(db0, opt_branch) =>
        /\ db = db0
        /\ ~cvs_invoked
        /\ events = <<>>
        /\ committed = <<>>
        /\ pc \in BeforeTheCheck \cup {"failed", "killed"}
        /\ refused => pc = "failed"

C6_Witness ==
    /\ refused
    /\ pc = "failed"
    /\ MappedIn(db0, opt_branch)
    /\ db.commit_branches # {}

\* C7: the mapping and the linearised commits are in the store before the
\* first cvs invocation, so a run for a branch whose earlier run wrote them
\* and then failed or was killed is refused and invokes nothing.
RowsFor(database, git) == { r \in database.commit_branches : r.branch = git }
HexOf == [c \in Commits |-> OidHex(c)]
HistoryRows(git, history) ==
    { [oid |-> HexOf[history[k]], branch |-> git, branch_index |-> k - 1] :
        k \in 1..Len(history) }

C7_RecordedFirst ==
    /\ cvs_invoked =>
          /\ MappedIn(db, opt_branch)
          /\ ~MappedIn(db0, opt_branch)
          /\ RowsFor(db, opt_branch) = HistoryRows(opt_branch, commits)
    /\ interrupted =>
          /\ MappedIn(db0, opt_branch)
          /\ ~cvs_invoked
          /\ events = <<>>
          /\ pc \in BeforeTheCheck \cup {"failed", "killed"}

C7_Witness ==
    /\ interrupted
    /\ refused
    /\ pc = "failed"
    /\ RowsFor(db, opt_branch) # {}

\* C8: the commits are replayed in the order of linear_history, one cvs
\* commit per commit, the k-th with the message of the k-th commit, and the
\* run ends after the last one.
C8_InOrder ==
    /\ Len(committed) <= Len(commits)
    /\ \A k \in 1..Len(committed) :
          committed[k] = message_raw_bytes(commits[k])
    /\ idx <= Len(committed) /\ Len(committed) <= idx + 1
    /\ Len(committed) = idx + 1 => pc = "failed"
    /\ pc = "done" => idx = Len(commits) /\ Len(committed) = Len(commits)
    /\ (pc = "loop" /\ idx = Len(commits)) => ENABLED Finish /\ ~ENABLED NextCommit

C8_Witness ==
    /\ pc = "done"
    /\ Len(commits) = MaxReplayed
    /\ Len(committed) = Len(commits)

\* the handles recorded as new in the commit being replayed
NewFiles == Range(commit_state.non_binary) \cup Range(commit_state.binary)

\* the walk of the current commit is over and main has gone on
WalkOver ==
    \/ pc = "walk" /\ walk_todo = <<>>
    \/ pc \in {"add_text", "add_binary", "commit"}
    \/ IterationDone

\* the global state has been pruned for the current commit
Applied == pc \in {"add_text", "add_binary", "commit"} \/ IterationDone

\* the walk of the current commit has gone past the entry at path p
Visited(p) ==
    /\ pc \in {"walk", "add_text", "add_binary", "commit"} \/ IterationDone
    /\ \A k \in 1..Len(walk_todo) : git_path(walk_todo[k]) # p

\* C16: when the walk of a commit is over, every handle recorded as new,
\* text or binary, a newly created directory too, is in the seen set.
C16_SeenCoversNew ==
    (began > 0 /\ ~Aborted /\ WalkOver) => NewFiles \subseteq commit_state.seen

\* C17: a handle recorded as new had no entry in the global state when the
\* commit began; a blob whose path had an entry with another blob id is
\* written again and its entry updated, and it is neither recorded as new
\* nor handed to cvs add.
C17_NewHadNoEntry ==
    began > 0 =>
        /\ NewFiles \cap keys_before = {}
        /\ \A p \in keys_before : cvs_relative_path(p) \notin Range(AllAdds)
        /\ ~Aborted =>
              \A p \in keys_before \cap BlobPaths(tree) :
                  (Visited(p) /\ prev_tree[p].id # tree[p].id) =>
                      /\ FsEv("write", p) \in Range(events)
                      /\ disk[p] = FileOf(tree[p].id)
                      /\ p \in DOMAIN known_files
                      /\ known_files[p] = tree[p].id
                      /\ p \notin NewFiles

C17_Witness ==
    /\ pc = "commit"
    /\ ~Aborted
    /\ \E p \in keys_before \cap BlobPaths(tree) :
          /\ prev_tree[p].id # tree[p].id
          /\ FsEv("write", p) \in Range(events)
    /\ \E q \in BlobPaths(tree) : q \in NewFiles /\ q \notin keys_before
    /\ Range(AllAdds) # {}

C19_AbortFails ==
    Aborted =>
        /\ pc = "failed"
        /\ \A i, j \in EventIdx :
              (i < j /\ events[i].op = "log") => events[j].op # "cvs"

(***************************************************************************)
(* sanitise_branch on its own: a name over a mixed alphabet, and a second  *)
(* name made of allowed characters only.                                   *)
(***************************************************************************)
\* r / 1 space - _ Z e-acute and the last scalar value
SanAlphabet == {114, 47, 49, 32, 45, 95, 90, 233, 1114111}
SanNames == UNION { [1..n -> SanAlphabet] : n \in 0..MaxNameLen }

\* the texts "__u00002f" and "__u000020", and three allowed characters
LookalikeSlash == <<95, 95, 117, 48, 48, 48, 48, 50, 102>>
LookalikeSpace == <<95, 95, 117, 48, 48, 48, 48, 50, 48>>
Pieces == { <<114>>, <<49>>, <<95>>, LookalikeSlash, LookalikeSpace }
AllowedNames ==
    { Concat(ps) : ps \in UNION { [1..n -> Pieces] : n \in 0..MaxPieces } }

SanInit ==
    /\ pc = "sanitise"
    /\ FreshData
    /\ opt_branch \in SanNames
    /\ other_branch \in AllowedNames
    /\ other_cvs = <<>>
    /\ db = EmptyDb
    /\ db0 = EmptyDb
    /\ interrupted = FALSE
    /\ Apart

Sanitise ==
    /\ pc = "sanitise"
    /\ pc' = "sanitised"
    /\ cvs_branch' = sanitise_branch(opt_branch)
    /\ other_cvs' = sanitise_branch(other_branch)
    /\ UNCHANGED <<opt_branch, db, commits, idx, began, known_files,
                   commit_state, disk, tree, walk_todo, removed, events,
                   committed, cvs_invoked, db0, refused, interrupted,
                   prev_tree, keys_before, other_branch, ApartVars>>

SanNext == Sanitise

SpecSan == SanInit /\ [][SanNext]_vars

\* C9: sanitise_branch is injective: two distinct names, also names of
\* allowed characters that hold the text "__u" and six hex digits, are
\* sanitised to distinct names.
C9_Injective ==
    (pc = "sanitised" /\ opt_branch # other_branch) => cvs_branch # other_cvs

\* C10: every character of [A-Za-z0-9_-] is copied, every other character
\* becomes "__u" and the six lowercase hexadecimal digits of its scalar
\* value, so the output holds allowed characters only and a name of allowed
\* characters is returned as it is.
AllowedSet == (48..57) \cup (65..90) \cup (97..122) \cup {45, 95}
LowerHex == <<48, 49, 50, 51, 52, 53, 54, 55, 56, 57,
              97, 98, 99, 100, 101, 102>>
SixDigits(c) ==
    << LowerHex[((c \div 1048576) % 16) + 1], LowerHex[((c \div 65536) % 16) + 1],
       LowerHex[((c \div 4096) % 16) + 1], LowerHex[((c \div 256) % 16) + 1],
       LowerHex[((c \div 16) % 16) + 1], LowerHex[(c % 16) + 1] >>
ExpectedFor(c) ==
    IF c \in AllowedSet THEN <<c>> ELSE <<95, 95, 117>> \o SixDigits(c)
ExpectedName(name) == Concat([i \in 1..Len(name) |-> ExpectedFor(name[i])])

C10_CharByChar ==
    pc = "sanitised" =>
        /\ cvs_branch = ExpectedName(opt_branch)
        /\ other_cvs = ExpectedName(other_branch)
        /\ Range(cvs_branch) \subseteq AllowedSet
        /\ Range(opt_branch) \subseteq AllowedSet => cvs_branch = opt_branch
        /\ other_cvs = other_branch

C10_Witness ==
    /\ pc = "sanitised"
    /\ opt_branch = <<114, 47>>
    /\ cvs_branch = <<114>> \o LookalikeSlash
    /\ other_branch = <<114>> \o LookalikeSlash

(***************************************************************************)
(* The argument chunker on its own (cvs.rs:159-205), driven as             *)
(* add_multiple and remove_multiple drive it: the paths are pushed one by  *)
(* one, the first error ends the loop, and the chunker is dropped when the *)
(* function returns.                                                       *)
(***************************************************************************)
MaxPaths == 4

\* "a", "src/a", "src/d/x" and "src/documents": 1, 5, 7 and 13 bytes
ChunkPaths ==
    { <<"a">>, <<"src", "a">>, <<"src", "d", "x">>, <<"src", "documents">> }
ChunkInputs == UNION { [1..n -> ChunkPaths] : n \in 0..MaxPaths }

\* whether the next call of the closure succeeds
BadIf(ok) == IF ok THEN {} ELSE {Len(chunker.calls) + 1}

ChunkInit ==
    /\ pc = "chunk_push"
    /\ FreshData
    /\ opt_branch = <<>>
    /\ other_branch = <<>>
    /\ other_cvs = <<>>
    /\ db = EmptyDb
    /\ db0 = EmptyDb
    /\ interrupted = FALSE
    /\ chunker = ArgChunker_new(ArgMax - ArgMargin)
    /\ to_push \in ChunkInputs
    /\ pushed = <<>>
    /\ txn = None
    /\ wb_args = None
    /\ graph = <<>>
    /\ lh_commit = 0
    /\ branch_tip = 0

EngineVars ==
    <<opt_branch, db, cvs_branch, commits, idx, began, known_files,
      commit_state, disk, tree, walk_todo, removed, events, committed,
      cvs_invoked, db0, refused, interrupted, prev_tree, keys_before,
      other_branch, other_cvs>>

\* cvs.rs:87-89: chunker.push(path)?
ChunkPush ==
    /\ pc = "chunk_push"
    /\ ~chunker.err
    /\ to_push # <<>>
    /\ \E ok \in BOOLEAN :
          LET ch == push(chunker, Head(to_push), BadIf(ok))
          IN  /\ chunker' = ch
              /\ pushed' = IF ch.err THEN pushed
                           ELSE Append(pushed, Head(to_push))
    /\ to_push' = Tail(to_push)
    /\ UNCHANGED <<pc, txn, wb_args, graph, lh_commit, branch_tip, EngineVars>>

\* cvs.rs:91 and the return of an error: the chunker goes out of scope
ChunkDrop ==
    /\ pc = "chunk_push"
    /\ chunker.err \/ to_push = <<>>
    /\ \E ok \in BOOLEAN : chunker' = drop(chunker, BadIf(ok))
    /\ pc' = "chunk_done"
    /\ UNCHANGED <<to_push, pushed, txn, wb_args, graph, lh_commit,
                   branch_tip, EngineVars>>

ChunkNext == ChunkPush \/ ChunkDrop

SpecChunk == ChunkInit /\ [][ChunkNext]_vars

Batches == [i \in 1..Len(chunker.calls) |-> chunker.calls[i].args]
Flushed == Concat(Batches)
NeverFailed == \A i \in 1..Len(chunker.calls) : chunker.calls[i].ok

RECURSIVE BatchBytes(_)
BatchBytes(batch) ==
    IF batch = <<>> THEN 0 ELSE ByteLen(Head(batch)) + BatchBytes(Tail(batch))

\* C11: when the closure never fails, the batches it is handed, one after
\* the other and with the batch of the drop, are the pushed paths: none
\* lost, none twice, none out of order.
C11_Coverage ==
    NeverFailed =>
        /\ Flushed \o chunker.acc = pushed
        /\ pc = "chunk_done" =>
              /\ to_push = <<>>
              /\ chunker.acc = <<>>
              /\ Flushed = pushed
              /\ ChunkerResult(chunker) = "ok"

C11_Witness ==
    /\ pc = "chunk_done"
    /\ NeverFailed
    /\ Len(pushed) = MaxPaths
    /\ Len(chunker.calls) >= 3
    /\ \E i, j \in 1..Len(pushed) : i < j /\ pushed[i] = pushed[j]
    /\ \E i \in 1..Len(chunker.calls) : Len(chunker.calls[i].args) >= 2

\* C12: no batch handed to the closure is longer, in bytes, than the limit
\* of the chunker, whatever the paths, also paths longer than the limit.
C12_UnderLimit ==
    \A i \in 1..Len(chunker.calls) :
        BatchBytes(chunker.calls[i].args) <= chunker.limit

\* C20: when the closure fails during a push the error is returned and the
\* batch it failed on is not handed to the closure again, also when the
\* chunker is dropped with that batch still accumulated.
C20_AtMostOnce ==
    /\ \A i, j \in 1..Len(chunker.calls) :
          (i < j /\ ~chunker.calls[i].ok) =>
              chunker.calls[j].args # chunker.calls[i].args
    /\ (\E i \in 1..Len(chunker.calls) : ~chunker.calls[i].ok) =>
          ChunkerResult(chunker) # "ok"

\* the function was handed no path at all
EmptyInput == pushed = <<>> /\ to_push = <<>> /\ ~chunker.err

\* C21: the closure is never handed an empty batch: over no paths at all it
\* is not called, and over any paths, also when the first path alone is
\* longer than the limit, every batch it is handed holds at least one path.
C21_NoEmptyBatch ==
    /\ EmptyInput => chunker.calls = <<>>
    /\ \A i \in 1..Len(chunker.calls) : chunker.calls[i].args # <<>>

(***************************************************************************)
(* write_branch on its own (database.rs:34-64), statement by statement.    *)
(* db is what every other connection reads; txn is the store as the open   *)
(* transaction sees it.  The store is written by write_branch alone, so    *)
(* it starts empty and calls follow one another.                           *)
(***************************************************************************)
\* the cvs name main would pass, and another one
CvsNames(git) == { sanitise_branch(git), <<120>> }
\* what the iterator may yield: commit ids oldest first, none twice, as
\* linear_history returns them; or nothing
WbHistories ==
    { h \in UNION { [1..n -> Commits] : n \in 0..MaxCommits } :
        \A i, j \in 1..Len(h) : i < j => h[i] < h[j] }

WbCall_of(g, c, h) == [git |-> g, cvs |-> c, commits |-> h, failed |-> "none"]

WbInit ==
    /\ pc = "wb_idle"
    /\ FreshData
    /\ opt_branch = <<>>
    /\ other_branch = <<>>
    /\ other_cvs = <<>>
    /\ db = EmptyDb
    /\ db0 = EmptyDb
    /\ interrupted = FALSE
    /\ chunker = ArgChunker_new(ArgMax - ArgMargin)
    /\ to_push = <<>>
    /\ pushed = <<>>
    /\ txn = None
    /\ wb_args = None
    /\ graph = <<>>
    /\ lh_commit = 0
    /\ branch_tip = 0

WbRest ==
    <<opt_branch, cvs_branch, commits, idx, began, known_files,
      commit_state, disk, tree, walk_todo, removed, events, committed,
      cvs_invoked, refused, interrupted, prev_tree, keys_before,
      other_branch, other_cvs, chunker, to_push, pushed, graph, lh_commit,
      branch_tip>>

\* the statement fails: `?` returns the error and the transaction is dropped
WbFails(step) ==
    /\ pc' = "wb_failed"
    /\ wb_args' = Some([wb_args[1] EXCEPT !.failed = step])
    /\ db' = IF txn = None THEN db ELSE Rollback(db, txn[1])
    /\ txn' = None

\* write_branch has returned, Ok or Err
WbReturn ==
    /\ pc \in {"wb_ok", "wb_failed"}
    /\ pc' = "wb_idle"
    /\ wb_args' = None
    /\ db0' = db
    /\ UNCHANGED <<db, txn, WbRest>>

\* a call of write_branch
WbCall ==
    /\ pc = "wb_idle"
    /\ \E g \in BranchNames, h \in WbHistories :
       \E c \in CvsNames(g) : wb_args' = Some(WbCall_of(g, c, h))
    /\ db0' = db
    /\ pc' = "wb_begin"
    /\ UNCHANGED <<db, txn, WbRest>>

\* database.rs:44
WbBegin ==
    /\ pc = "wb_begin"
    /\ \E ok \in BOOLEAN :
          IF ok
          THEN pc' = "wb_upsert" /\ txn' = Some(db) /\ UNCHANGED <<db, wb_args>>
          ELSE WbFails("begin")
    /\ UNCHANGED <<db0, WbRest>>

\* database.rs:46-49
WbUpsert ==
    /\ pc = "wb_upsert"
    /\ \E ok \in BOOLEAN :
          IF ok
          THEN /\ pc' = "wb_delete"
               /\ txn' = Some(UpsertMapping(txn[1], wb_args[1].git,
                                            wb_args[1].cvs))
               /\ UNCHANGED <<db, wb_args>>
          ELSE WbFails("upsert")
    /\ UNCHANGED <<db0, WbRest>>

\* database.rs:51-54
WbDelete ==
    /\ pc = "wb_delete"
    /\ \E ok \in BOOLEAN :
          IF ok
          THEN /\ pc' = "wb_insert"
               /\ txn' = Some(DeleteBranchRows(txn[1], wb_args[1].git))
               /\ UNCHANGED <<db, wb_args>>
          ELSE WbFails("delete")
    /\ UNCHANGED <<db0, WbRest>>

\* the rows this call has inserted so far
WbInserted == Cardinality(RowsFor(txn[1], wb_args[1].git))

\* database.rs:58-60: one turn of the loop
WbInsert ==
    /\ pc = "wb_insert"
    /\ WbInserted < Len(wb_args[1].commits)
    /\ \E ok \in BOOLEAN :
          IF ok
          THEN /\ txn' = Some(InsertRows(txn[1], wb_args[1].git,
                                         wb_args[1].commits, WbInserted + 1))
               /\ UNCHANGED <<pc, db, wb_args>>
          ELSE WbFails("insert")
    /\ UNCHANGED <<db0, WbRest>>

\* database.rs:63
WbCommit ==
    /\ pc = "wb_insert"
    /\ WbInserted = Len(wb_args[1].commits)
    /\ \E ok \in BOOLEAN :
          IF ok
          THEN /\ pc' = "wb_ok"
               /\ db' = txn[1]
               /\ txn' = None
               /\ UNCHANGED wb_args
          ELSE WbFails("commit")
    /\ UNCHANGED <<db0, WbRest>>

WbNext ==
    \/ WbCall
    \/ WbBegin
    \/ WbUpsert
    \/ WbDelete
    \/ WbInsert
    \/ WbCommit
    \/ WbReturn

SpecWb == WbInit /\ [][WbNext]_vars

WbUnderWay == {"wb_begin", "wb_upsert", "wb_delete", "wb_insert"}

\* the rows of a branch are numbered 0..n-1, and a branch without a mapping
\* has no rows
WholeSequence(database, git) ==
    LET rows == RowsFor(database, git)
    IN  /\ { r.branch_index : r \in rows } = 0..(Cardinality(rows) - 1)
        /\ ~MappedIn(database, git) => rows = {}
        /\ Cardinality({ r \in database.branch_mappings : r.git = git }) <= 1

\* C13: a write_branch that fails at any step leaves the store as it was
\* before the call, so get_cvs_branch and the rows of commit_branches are
\* those of before; while the call is under way and after it, the store
\* holds for every branch either the mapping with a whole sequence of rows
\* or neither.
C13_Atomic ==
    /\ pc \in WbUnderWay \cup {"wb_failed"} => db = db0
    /\ pc = "wb_failed" =>
          /\ get_cvs_branch(db, wb_args[1].git)
                = get_cvs_branch(db0, wb_args[1].git)
          /\ db.commit_branches = db0.commit_branches
          /\ txn = None
    /\ \A g \in BranchNames : WholeSequence(db, g)

C13_Witness ==
    /\ pc = "wb_failed"
    /\ wb_args[1].failed = "commit"
    /\ MappedIn(db0, wb_args[1].git)
    /\ get_cvs_branch(db0, wb_args[1].git) # Some(wb_args[1].cvs)
    /\ Len(wb_args[1].commits) >= 2
    /\ RowsFor(db0, wb_args[1].git)
          # HistoryRows(wb_args[1].git, wb_args[1].commits)

\* C14: after a write_branch that succeeded, branch_mappings holds one row
\* for the branch, with the cvs name given; the rows of commit_branches for
\* the branch are (commits[i], branch, i) for every i and no others, the
\* rows it had before are gone, and the rows and the mappings of the other
\* branches are as they were.
C14_Written ==
    pc = "wb_ok" =>
        LET git == wb_args[1].git
        IN  /\ { r \in db.branch_mappings : r.git = git }
                  = { [git |-> git, cvs |-> wb_args[1].cvs] }
            /\ get_cvs_branch(db, git) = Some(wb_args[1].cvs)
            /\ RowsFor(db, git) = HistoryRows(git, wb_args[1].commits)
            /\ \A g \in BranchNames \ {git} :
                  /\ RowsFor(db, g) = RowsFor(db0, g)
                  /\ get_cvs_branch(db, g) = get_cvs_branch(db0, g)

C14_Witness ==
    /\ pc = "wb_ok"
    /\ Len(wb_args[1].commits) >= 2
    /\ RowsFor(db0, wb_args[1].git) # {}
    /\ RowsFor(db0, wb_args[1].git) \cap RowsFor(db, wb_args[1].git) = {}
    /\ get_cvs_branch(db0, wb_args[1].git) # Some(wb_args[1].cvs)
    /\ \E g \in BranchNames \ {wb_args[1].git} : RowsFor(db, g) # {}

(***************************************************************************)
(* linear_history on its own (git.rs:45-71), one turn of the loop at a     *)
(* time, over every commit graph and every tip.                            *)
(***************************************************************************)
LhInit ==
    /\ pc = "lh_peel"
    /\ FreshData
    /\ opt_branch = <<>>
    /\ other_branch = <<>>
    /\ other_cvs = <<>>
    /\ db = EmptyDb
    /\ db0 = EmptyDb
    /\ interrupted = FALSE
    /\ chunker = ArgChunker_new(ArgMax - ArgMargin)
    /\ to_push = <<>>
    /\ pushed = <<>>
    /\ txn = None
    /\ wb_args = None
    /\ graph \in Graphs
    /\ lh_commit = 0
    /\ branch_tip \in Commits

LhRest ==
    <<opt_branch, db, cvs_branch, idx, began, known_files,
      commit_state, disk, tree, walk_todo, removed, events, committed,
      cvs_invoked, db0, refused, interrupted, prev_tree, keys_before,
      other_branch, other_cvs, chunker, to_push, pushed, txn, wb_args,
      graph, branch_tip>>

\* git.rs:50-52
LhPeel ==
    /\ pc = "lh_peel"
    /\ \E ok \in BOOLEAN :
          IF ok THEN pc' = "lh_loop" /\ lh_commit' = branch_tip
          ELSE pc' = "lh_failed" /\ UNCHANGED lh_commit
    /\ UNCHANGED <<commits, LhRest>>

\* git.rs:54-67: one turn of the loop
LhStep ==
    /\ pc = "lh_loop"
    /\ commits' = push_front(commits, lh_commit)
    /\ IF graph[lh_commit] = <<>>
       THEN pc' = "lh_done" /\ UNCHANGED lh_commit
       ELSE \E ok \in BOOLEAN :
               IF ok
               THEN pc' = "lh_loop" /\ lh_commit' = parent_0(graph, lh_commit)
               ELSE pc' = "lh_failed" /\ UNCHANGED lh_commit
    /\ UNCHANGED LhRest

LhNext == LhPeel \/ LhStep

SpecLh == LhInit /\ [][LhNext]_vars
\* the loop runs in main's only thread, so it is not held up for ever
SpecLhFair == SpecLh /\ WF_vars(LhNext)

RECURSIVE FirstParentChain(_, _)
FirstParentChain(g, c) ==
    IF g[c] = <<>> THEN {c} ELSE {c} \cup FirstParentChain(g, g[c][1])

LhReturned ==
    /\ Len(commits) >= 1
    /\ commits[Len(commits)] = branch_tip
    /\ graph[commits[1]] = <<>>
    /\ \A i \in 1..(Len(commits) - 1) :
          /\ graph[commits[i + 1]] # <<>>
          /\ graph[commits[i + 1]][1] = commits[i]
    /\ Range(commits) = FirstParentChain(graph, branch_tip)

\* C15: on every acyclic commit graph linear_history comes to an end; what
\* it returns ends with the tip, begins with a commit without parent, and
\* each commit in it is the first parent of the next, so a commit reached
\* through a second parent only is not in it.
C15_FirstParents ==
    /\ <>(pc \in {"lh_done", "lh_failed"})
    /\ [](pc = "lh_done" => LhReturned)

C15_Witness ==
    /\ pc = "lh_done"
    /\ Len(commits) >= 2
    /\ Len(graph[branch_tip]) = 2
    /\ graph[branch_tip][2] \notin Range(commits)
    /\ graph[graph[branch_tip][2]] = <<>>

====
